---- MODULE Spec2Model ----
(***************************************************************************)
(* A model of pymw: the synchronized list (_SyncList), the task object     *)
(* (PyMW_Task), the scheduler thread (PyMW_Scheduler) and the master       *)
(* facade (PyMW_Master) of pymw/pymw.py, and the Condor backend            *)
(* (CondorInterface) of pymw/interfaces/condor.py.                         *)
(*                                                                         *)
(* Four state machines live in this module:                                *)
(*   SLSpec  one _SyncList driven by concurrent append and wait_pop calls, *)
(*           with the lock and the semaphore modelled statement by         *)
(*           statement;                                                    *)
(*   Spec    a PyMW_Master with its scheduler thread, submitting threads,  *)
(*           get_result callers and an execution backend.  FairSpec is     *)
(*           the master over a single-slot backend, with weak fairness on  *)
(*           every thread's next statement;                                *)
(*   TeardownSpec  the master with its scheduler, two submitting threads   *)
(*           and a thread running _cleanup, up to MaxTeardowns times;      *)
(*   CondorSpec  a CondorInterface given NJobs tasks: the execute_task     *)
(*           threads, the poller threads they start and the jobs at the    *)
(*           pool.  CondorFairSpec adds weak fairness on every started     *)
(*           thread and on the termination of every submitted job.         *)
(***************************************************************************)
EXTENDS Integers, Sequences, FiniteSets, TLC

\* ------------------------------------------------------------------------
\* Bounds
\* ------------------------------------------------------------------------
\* number of append calls (and of wait_pop calls) on the _SyncList of SLSpec
NItems == 3
\* number of get_result calls each caller thread makes on the master
MaxCalls == 1
\* number of times teardown (_cleanup) is run on the master of TeardownSpec
MaxTeardowns == 2
\* number of tasks handed to the Condor backend of CondorSpec
NJobs == 2

\* ------------------------------------------------------------------------
\* Threads and values
\* ------------------------------------------------------------------------
Producers == {"p1", "p2"}
Consumers == {"k1", "k2"}
Submitters == {"s1", "s2"}
Callers == {"c1", "c2"}

\* The user threads of a run: two threads submitting and one retrieving, or
\* one submitting and two retrieving.
Workloads == {{"s1", "s2", "c1"}, {"s1", "c1", "c2"}}

\* The threads of one kind run the same code, so of two runs that differ
\* only in which thread made which call one is explored: a thread makes its
\* n-th call only when the threads before it have made theirs.
Before(th1, th2) ==
    \/ th1 = "s1" /\ th2 = "s2"
    \/ th1 = "c1" /\ th2 = "c2"

\* Python's None, as a list item or a task reference
None == 0
\* a PyMW_Task object that was never submitted to this master
Foreign == -1

VARIABLES
    \* ---- SLSpec: one _SyncList --------------------------------------
    slList,      \* _SyncList._list
    slSem,       \* value of _SyncList._sem
    slLock,      \* holder of _SyncList._lock, "" when free
    slPc,        \* position of every producer and consumer thread
    slItem,      \* the item argument of a producer's running append
    slStarted,   \* number of append calls / wait_pop calls started
    slReturned,  \* the values returned by wait_pop so far, in order
    \* ---- Spec: the master -------------------------------------------
    cfg,         \* construction parameters of the master and its backend
    threads,     \* the user threads that call the master in this run
    cur_task_num,\* PyMW_Master._cur_task_num
    tasks,       \* the PyMW_Task objects created, by identity 1..Len
    submitted,   \* PyMW_Master._submitted_tasks._list
    queue,       \* PyMW_Master._queued_tasks._list
    sem,         \* value of PyMW_Master._queued_tasks._sem
    finished,    \* PyMW_Scheduler._finished
    sched,       \* the scheduler thread: pc and next_task
    busy,        \* workers reserved at the backend and not yet released
    exec,        \* per task: the execute_task thread (pc and task_err)
    inFile,      \* names whose input artifact exists
    outFile,     \* per name: content of the output artifact, None if absent
    sub,         \* per submitting thread: its submit_task call
    get,         \* per caller thread: its get_result call
    \* ---- TeardownSpec: the master's teardown --------------------------
    td,          \* the thread running PyMW_Master._cleanup
    \* ---- CondorSpec: the Condor backend ------------------------------
    task_list,   \* CondorInterface._task_list, the tracked tasks
    task_list_lock, \* holder of CondorInterface._task_list_lock, 0 if free
    result_checker_running, \* CondorInterface._result_checker_running
    poller,      \* per poller thread (_get_finished_tasks): pc and index
    cx,          \* per task: the thread running execute_task for it
    jobs,        \* per task: its Condor job's log and output artifact
    cb           \* per task: number of task_finished calls made on it

slVars == <<slList, slSem, slLock, slPc, slItem, slStarted, slReturned>>
mVars == <<cfg, threads, cur_task_num, tasks, submitted, queue, sem,
           finished, sched, busy, exec, inFile, outFile, sub, get>>
tVars == <<td>>
cVars == <<task_list, task_list_lock, result_checker_running, poller, cx,
           jobs, cb>>
\* the state the master's own steps leave alone
notMaster == <<slVars, tVars, cVars>>
vars == <<slList, slSem, slLock, slPc, slItem, slStarted, slReturned,
          cfg, threads, cur_task_num, tasks, submitted, queue, sem, finished,
          sched,
          busy, exec, inFile, outFile, sub, get, td,
          task_list, task_list_lock, result_checker_running, poller, cx,
          jobs, cb>>

\* ========================================================================
\* _SyncList, statement by statement (SLSpec)
\* ========================================================================
SLIdle ==
    /\ slList = << >>
    /\ slSem = 0
    /\ slLock = ""
    /\ slPc = [th \in Producers \cup Consumers |-> "idle"]
    /\ slItem = [p \in Producers |-> None]
    /\ slStarted = [append |-> 0, wait_pop |-> 0]
    /\ slReturned = << >>

\* a producer calls append(item); items are numbered in call order
SL_AppendCall(p) ==
    /\ slPc[p] = "idle"
    /\ slStarted.append < NItems
    /\ slStarted' = [slStarted EXCEPT !.append = @ + 1]
    /\ slItem' = [slItem EXCEPT ![p] = slStarted.append + 1]
    /\ slPc' = [slPc EXCEPT ![p] = "a_lock"]
    /\ UNCHANGED <<slList, slSem, slLock, slReturned>>

\* self._lock.acquire()
SL_AppendLock(p) ==
    /\ slPc[p] = "a_lock"
    /\ slLock = ""
    /\ slLock' = p
    /\ slPc' = [slPc EXCEPT ![p] = "a_append"]
    /\ UNCHANGED <<slList, slSem, slItem, slStarted, slReturned>>

\* self._list.append(item)
SL_AppendItem(p) ==
    /\ slPc[p] = "a_append"
    /\ slList' = Append(slList, slItem[p])
    /\ slPc' = [slPc EXCEPT ![p] = "a_sem"]
    /\ UNCHANGED <<slSem, slLock, slItem, slStarted, slReturned>>

\* self._sem.release()
SL_AppendSemRelease(p) ==
    /\ slPc[p] = "a_sem"
    /\ slSem' = slSem + 1
    /\ slPc' = [slPc EXCEPT ![p] = "a_unlock"]
    /\ UNCHANGED <<slList, slLock, slItem, slStarted, slReturned>>

\* self._lock.release()
SL_AppendUnlock(p) ==
    /\ slPc[p] = "a_unlock"
    /\ slLock' = ""
    /\ slPc' = [slPc EXCEPT ![p] = "idle"]
    /\ UNCHANGED <<slList, slSem, slItem, slStarted, slReturned>>

\* a consumer calls wait_pop()
SL_PopCall(k) ==
    /\ slPc[k] = "idle"
    /\ slStarted.wait_pop < NItems
    /\ slStarted' = [slStarted EXCEPT !.wait_pop = @ + 1]
    /\ slPc' = [slPc EXCEPT ![k] = "p_sem"]
    /\ UNCHANGED <<slList, slSem, slLock, slItem, slReturned>>

\* mutation: the semaphore is taken without waiting for it to be positive
SL_PopSemAcquire_NoWait(k) ==
    /\ slPc[k] = "p_sem"
    /\ slSem' = IF slSem > 0 THEN slSem - 1 ELSE 0
    /\ slPc' = [slPc EXCEPT ![k] = "p_lock"]
    /\ UNCHANGED <<slList, slLock, slItem, slStarted, slReturned>>

\* self._sem.acquire(blocking=True)
SL_PopSemAcquire(k) ==
    /\ slPc[k] = "p_sem"
    /\ slSem > 0
    /\ slSem' = slSem - 1
    /\ slPc' = [slPc EXCEPT ![k] = "p_lock"]
    /\ UNCHANGED <<slList, slLock, slItem, slStarted, slReturned>>

\* self._lock.acquire()
SL_PopLock(k) ==
    /\ slPc[k] = "p_lock"
    /\ slLock = ""
    /\ slLock' = k
    /\ slPc' = [slPc EXCEPT ![k] = "p_pop"]
    /\ UNCHANGED <<slList, slSem, slItem, slStarted, slReturned>>

\* item = self._list.pop(); return item / except: return None;
\* finally: self._lock.release()
SL_PopItem(k) ==
    /\ slPc[k] = "p_pop"
    /\ IF slList = << >>
         THEN /\ slReturned' = Append(slReturned, None)
              /\ UNCHANGED slList
         ELSE /\ slReturned' = Append(slReturned, slList[Len(slList)])
              /\ slList' = SubSeq(slList, 1, Len(slList) - 1)
    /\ slLock' = ""
    /\ slPc' = [slPc EXCEPT ![k] = "idle"]
    /\ UNCHANGED <<slSem, slItem, slStarted>>

\* ========================================================================
\* The master (Spec)
\* ========================================================================
\* the executable every task is submitted with, as str(executable) gives it
Exe == "f"
\* new_task_name not supplied (None or ""): "if not new_task_name"
NoName == ""
\* the task names callers supply
ExplicitNames == {"a"}
\* the concurrency limits a backend is constructed with
SlotChoices == {1, 2}

\* str(executable)+"_"+str(self._cur_task_num)
DerivedName(executable, num) == executable \o "_" \o ToString(num)

\* the output _output_arg of a task and the input _input_arg are derived
\* from the task name alone, so artifacts are keyed by name
\* the most task objects the submitting threads can create, one call each
MaxTasks == Cardinality(Submitters)

AllNames == ExplicitNames \cup {DerivedName(Exe, n) : n \in 0..MaxTasks}

TaskIds == 1..Len(tasks)

\* PyMW_Task.__init__: the object's fields after construction.  _error is
\* not assigned by __init__; times are 0 until set ("a" timestamp is 1).
NewTask(task_name) ==
    [name |-> task_name, error |-> "unset", output |-> None,
     execute_time |-> 0, finish_time |-> 0, fired |-> FALSE]

\* the object behind a task reference: a task created by this master, or a
\* task object constructed elsewhere (its completion signal never fires here)
TaskOf(t) == IF t \in TaskIds THEN tasks[t] ELSE NewTask("foreign")

\* mutation: every item is reported as contained
Contains_Always(list, item) == TRUE

\* _SyncList.contains(item): self._list.count(item) != 0
Contains(list, item) == \E i \in 1..Len(list) : list[i] = item

\* the first task of the registry whose str(task) equals task_name, None if
\* there is none: the for loop of submit_task.  The registry only grows and
\* task names never change, so the loop's outcome equals that of one atomic
\* scan at the moment the loop ends.
FirstNamed(task_name) ==
    IF \E i \in 1..Len(submitted) : tasks[submitted[i]].name = task_name
      THEN submitted[CHOOSE i \in 1..Len(submitted) :
                       /\ tasks[submitted[i]].name = task_name
                       /\ \A j \in 1..(i - 1) :
                            tasks[submitted[j]].name # task_name]
      ELSE None

IdleSub == [pc |-> "idle", arg |-> NoName, name |-> NoName, tmp |-> 0,
            task |-> None, ret |-> None]
IdleGet == [pc |-> "idle", task |-> None, wait |-> FALSE, calls |-> 0,
            res |-> [kind |-> "none", task |-> None, err |-> "None",
                     out |-> None]]

\* no teardown has been started
TeardownIdle ==
    td = [pc |-> "idle", pos |-> 0, task |-> None, runs |-> 0,
          res |-> "none"]

\* CondorInterface.__init__: self._task_list = [], the lock free,
\* self._result_checker_running = False; no thread of the backend started,
\* no job at the pool
CondorIdle ==
    /\ task_list = << >>
    /\ task_list_lock = 0
    /\ result_checker_running = FALSE
    /\ poller = [q \in 1..NJobs |-> [pc |-> "none", i |-> 0]]
    /\ cx = [t \in 1..NJobs |-> [pc |-> "none", outcome |-> "none"]]
    /\ jobs = [t \in 1..NJobs |-> [log |-> "none", out |-> FALSE]]
    /\ cb = [t \in 1..NJobs |-> 0]

Init ==
    /\ SLIdle
    /\ TeardownIdle
    /\ CondorIdle
    /\ cfg \in [use_state_records : BOOLEAN, slots : SlotChoices]
    /\ threads \in Workloads
    /\ cur_task_num = 0
    /\ tasks = << >>
    /\ submitted = << >>
    /\ queue = << >>
    /\ sem = 0
    /\ finished = FALSE
    /\ sched = [pc |-> "loop", next_task |-> None]
    /\ busy = 0
    /\ exec = [t \in 1..MaxTasks |-> [pc |-> "none", task_err |-> "None"]]
    /\ inFile = {}
    /\ outFile = [n \in AllNames |-> None]
    /\ sub = [s \in Submitters |-> IdleSub]
    /\ get = [c \in Callers |-> IdleGet]

\* ------------------------------------------------------------------------
\* PyMW_Master.submit_task
\* ------------------------------------------------------------------------
\* where submit_task goes once task_name is computed: the registry scan is
\* made only "if self._use_state_records"
AfterName == IF cfg.use_state_records THEN "scan" ELSE "create"

\* a thread calls submit_task(executable, input_data, new_task_name), once:
\* if not new_task_name: task_name = str(executable)+"_"+str(_cur_task_num)
\* else: task_name = new_task_name
SubmitName(s, new_task_name) ==
    /\ s \in threads
    /\ sub[s].pc = "idle"
    /\ \A s0 \in Submitters : Before(s0, s) => sub[s0].pc # "idle"
    /\ sub' = [sub EXCEPT ![s] =
                 IF new_task_name = NoName
                   THEN [@ EXCEPT !.arg = new_task_name,
                                  !.name = DerivedName(Exe, cur_task_num),
                                  !.pc = "inc_load"]
                   ELSE [@ EXCEPT !.arg = new_task_name,
                                  !.name = new_task_name,
                                  !.pc = AfterName]]
    /\ UNCHANGED <<cfg, threads, cur_task_num, tasks, submitted, queue, sem,
                   finished, sched, busy, exec, inFile, outFile, get>>

\* self._cur_task_num += 1, the load of the attribute
SubmitIncLoad(s) ==
    /\ sub[s].pc = "inc_load"
    /\ sub' = [sub EXCEPT ![s].tmp = cur_task_num, ![s].pc = "inc_store"]
    /\ UNCHANGED <<cfg, threads, cur_task_num, tasks, submitted, queue, sem,
                   finished, sched, busy, exec, inFile, outFile, get>>

\* self._cur_task_num += 1, the store of the sum
SubmitIncStore(s) ==
    /\ sub[s].pc = "inc_store"
    /\ cur_task_num' = sub[s].tmp + 1
    /\ sub' = [sub EXCEPT ![s].pc = AfterName]
    /\ UNCHANGED <<cfg, threads, tasks, submitted, queue, sem, finished,
                   sched, busy, exec, inFile, outFile, get>>

\* if self._use_state_records: for task in self._submitted_tasks:
\*     if str(task) == task_name: return task
SubmitScan(s) ==
    /\ sub[s].pc = "scan"
    /\ sub' = [sub EXCEPT ![s] =
                 IF FirstNamed(sub[s].name) # None
                   THEN [@ EXCEPT !.ret = FirstNamed(sub[s].name),
                                  !.pc = "done"]
                   ELSE [@ EXCEPT !.pc = "create"]]
    /\ UNCHANGED <<cfg, threads, cur_task_num, tasks, submitted, queue, sem,
                   finished, sched, busy, exec, inFile, outFile, get>>

\* new_task = PyMW_Task(task_name, executable, ...): a new object, whose
\* constructor writes the input artifact
SubmitCreate(s) ==
    /\ sub[s].pc = "create"
    /\ tasks' = Append(tasks, NewTask(sub[s].name))
    /\ inFile' = inFile \cup {sub[s].name}
    /\ sub' = [sub EXCEPT ![s].task = Len(tasks) + 1, ![s].pc = "append_sub"]
    /\ UNCHANGED <<cfg, threads, cur_task_num, submitted, queue, sem,
                   finished, sched, busy, exec, outFile, get>>

\* self._submitted_tasks.append(new_task)
SubmitAppendSubmitted(s) ==
    /\ sub[s].pc = "append_sub"
    /\ submitted' = Append(submitted, sub[s].task)
    /\ sub' = [sub EXCEPT ![s].pc = "append_q"]
    /\ UNCHANGED <<cfg, threads, cur_task_num, tasks, queue, sem, finished,
                   sched, busy, exec, inFile, outFile, get>>

\* mutation: the task is put in the dispatch queue without releasing the
\* semaphore
SubmitAppendQueued_NoRelease(s) ==
    /\ sub[s].pc = "append_q"
    /\ queue' = Append(queue, sub[s].task)
    /\ sem' = sem
    /\ sub' = [sub EXCEPT ![s].ret = sub[s].task, ![s].pc = "done"]
    /\ UNCHANGED <<cfg, threads, cur_task_num, tasks, submitted, finished,
                   sched, busy, exec, inFile, outFile, get>>

\* self._queued_tasks.append(new_task); return new_task
\* (_SyncList.append: list append and semaphore release under the lock)
SubmitAppendQueued(s) ==
    /\ sub[s].pc = "append_q"
    /\ queue' = Append(queue, sub[s].task)
    /\ sem' = sem + 1
    /\ sub' = [sub EXCEPT ![s].ret = sub[s].task, ![s].pc = "done"]
    /\ UNCHANGED <<cfg, threads, cur_task_num, tasks, submitted, finished,
                   sched, busy, exec, inFile, outFile, get>>

SubmitStep(s) ==
    \/ SubmitIncLoad(s)
    \/ SubmitIncStore(s)
    \/ SubmitScan(s)
    \/ SubmitCreate(s)
    \/ SubmitAppendSubmitted(s)
    \/ SubmitAppendQueued(s)

\* ------------------------------------------------------------------------
\* PyMW_Scheduler
\* ------------------------------------------------------------------------
\* mutation: the loop condition is not tested
SchedLoop_IgnoresFinished ==
    /\ sched.pc = "loop"
    /\ sched' = [sched EXCEPT !.pc = "sem"]
    /\ UNCHANGED <<cfg, threads, cur_task_num, tasks, submitted, queue, sem,
                   finished, busy, exec, inFile, outFile, sub, get>>

\* while not self._finished:
SchedLoop ==
    /\ sched.pc = "loop"
    /\ sched' = [sched EXCEPT !.pc = IF finished THEN "done" ELSE "sem"]
    /\ UNCHANGED <<cfg, threads, cur_task_num, tasks, submitted, queue, sem,
                   finished, busy, exec, inFile, outFile, sub, get>>

\* wait_pop: self._sem.acquire(blocking=True)
SchedSemAcquire ==
    /\ sched.pc = "sem"
    /\ sem > 0
    /\ sem' = sem - 1
    /\ sched' = [sched EXCEPT !.pc = "pop"]
    /\ UNCHANGED <<cfg, threads, cur_task_num, tasks, submitted, queue,
                   finished, busy, exec, inFile, outFile, sub, get>>

\* mutation: the first item of the list is returned
PopValue_First(list) == IF list = << >> THEN None ELSE list[1]

\* the value wait_pop returns from a list: its last item, None when the pop
\* raises on an empty list
PopValue(list) == IF list = << >> THEN None ELSE list[Len(list)]

\* mutation: the popped item stays in the list
PopRest_Keeps(list) == list

\* the list wait_pop leaves behind
PopRest(list) ==
    IF list = << >> THEN list ELSE SubSeq(list, 1, Len(list) - 1)

\* wait_pop: item = self._list.pop() under the lock;
\* if next_task is not None: (else back to the loop condition)
SchedPop ==
    /\ sched.pc = "pop"
    /\ queue' = PopRest(queue)
    /\ sched' = IF PopValue(queue) = None
                  THEN [pc |-> "loop", next_task |-> None]
                  ELSE [pc |-> "reserve", next_task |-> PopValue(queue)]
    /\ UNCHANGED <<cfg, threads, cur_task_num, tasks, submitted, sem,
                   finished, busy, exec, inFile, outFile, sub, get>>

\* worker = self._interface.reserve_worker(): not guarded by any try, so an
\* exception raised by the backend ends the scheduler thread; otherwise the
\* call returns once the backend has a free slot, and then
\* next_task._times["execute_time"] = time.time();
\* threading.Thread(target=self._interface.execute_task, ...).start()
\* (the reservation is seen by no other thread before the task's thread runs,
\* so reservation and thread start are one step)
SchedDispatch ==
    /\ sched.pc = "reserve"
    /\ \/ /\ sched' = [sched EXCEPT !.pc = "dead"]
          /\ UNCHANGED <<busy, tasks, exec>>
       \/ /\ busy < cfg.slots
          /\ busy' = busy + 1
          /\ tasks' = [tasks EXCEPT ![sched.next_task].execute_time = 1]
          /\ exec' = [exec EXCEPT ![sched.next_task].pc = "run"]
          /\ sched' = [sched EXCEPT !.pc = "loop"]
    /\ UNCHANGED <<cfg, threads, cur_task_num, submitted, queue, sem,
                   finished, inFile, outFile, sub, get>>

SchedStep ==
    \/ SchedLoop
    \/ SchedSemAcquire
    \/ SchedPop
    \/ SchedDispatch

\* PyMW_Scheduler._exit, first statement: self._finished = True
ExitSetFinished == finished' = TRUE

\* mutation: the sentinel is put in the list without releasing the semaphore
ExitAppendNone_NoRelease ==
    /\ queue' = Append(queue, None)
    /\ sem' = sem

\* PyMW_Scheduler._exit, second statement: self._task_list.append(None)
ExitAppendNone ==
    /\ queue' = Append(queue, None)
    /\ sem' = sem + 1

\* ------------------------------------------------------------------------
\* The backend's execute_task thread and PyMW_Task.task_finished
\* ------------------------------------------------------------------------
\* execute_task(task, worker) runs the work out of line: on success it writes
\* the output artifact at the task's output location, on failure it does
\* not; then it calls task.task_finished(task_err)
ExecRun(t) ==
    /\ exec[t].pc = "run"
    /\ \E ok \in BOOLEAN :
         IF ok
           THEN /\ outFile' = [outFile EXCEPT ![tasks[t].name] = t]
                /\ exec' = [exec EXCEPT ![t] = [pc |-> "tf_error",
                                                task_err |-> "None"]]
           ELSE /\ UNCHANGED outFile
                /\ exec' = [exec EXCEPT ![t] = [pc |-> "tf_error",
                                                task_err |-> "Exception"]]
    /\ UNCHANGED <<cfg, threads, cur_task_num, tasks, submitted, queue, sem,
                   finished, sched, busy, inFile, sub, get>>

\* mutation: the completion signal is set by the first statement of
\* task_finished instead of the last
TfSetError_SetsEvent(t) ==
    /\ exec[t].pc = "tf_error"
    /\ tasks' = [tasks EXCEPT ![t].error = exec[t].task_err,
                              ![t].fired = TRUE]
    /\ exec' = [exec EXCEPT ![t].pc = "tf_load"]
    /\ UNCHANGED <<cfg, threads, cur_task_num, submitted, queue, sem,
                   finished, sched, busy, inFile, outFile, sub, get>>

\* task_finished: self._error = task_err
TfSetError(t) ==
    /\ exec[t].pc = "tf_error"
    /\ tasks' = [tasks EXCEPT ![t].error = exec[t].task_err]
    /\ exec' = [exec EXCEPT ![t].pc = "tf_load"]
    /\ UNCHANGED <<cfg, threads, cur_task_num, submitted, queue, sem,
                   finished, sched, busy, inFile, outFile, sub, get>>

\* task_finished: self._output_data = Unpickler(open(_output_arg)).load(),
\* an OSError or IOError (no such artifact) being passed over
TfLoadOutput(t) ==
    /\ exec[t].pc = "tf_load"
    /\ tasks' = [tasks EXCEPT ![t].output =
                   IF outFile[tasks[t].name] # None
                     THEN outFile[tasks[t].name] ELSE @]
    /\ exec' = [exec EXCEPT ![t].pc = "tf_time"]
    /\ UNCHANGED <<cfg, threads, cur_task_num, submitted, queue, sem,
                   finished, sched, busy, inFile, outFile, sub, get>>

\* task_finished: self._times["finish_time"] = time.time()
TfSetFinishTime(t) ==
    /\ exec[t].pc = "tf_time"
    /\ tasks' = [tasks EXCEPT ![t].finish_time = 1]
    /\ exec' = [exec EXCEPT ![t].pc = "tf_event"]
    /\ UNCHANGED <<cfg, threads, cur_task_num, submitted, queue, sem,
                   finished, sched, busy, inFile, outFile, sub, get>>

\* task_finished: self._finish_event.set(); the callback returns and the
\* backend frees the worker
TfSetEvent(t) ==
    /\ exec[t].pc = "tf_event"
    /\ tasks' = [tasks EXCEPT ![t].fired = TRUE]
    /\ exec' = [exec EXCEPT ![t].pc = "done"]
    /\ busy' = busy - 1
    /\ UNCHANGED <<cfg, threads, cur_task_num, submitted, queue, sem,
                   finished, sched, inFile, outFile, sub, get>>

ExecStep(t) ==
    \/ ExecRun(t)
    \/ TfSetError(t)
    \/ TfLoadOutput(t)
    \/ TfSetFinishTime(t)
    \/ TfSetEvent(t)

\* ------------------------------------------------------------------------
\* PyMW_Master.get_result
\* ------------------------------------------------------------------------
\* what a get_result call leaves its caller with
Result(kind, task, err, out) ==
    [kind |-> kind, task |-> task, err |-> err, out |-> out]

\* return None, None
NotYet == Result("notyet", None, "None", None)

\* the task handles a caller can hold: the tasks submit_task has returned
\* (all of them in the registry), no task at all, or a task object made
\* outside this master
Handles == {submitted[i] : i \in 1..Len(submitted)} \cup {None, Foreign}

\* a thread calls get_result(task, wait):
\* if task and not self._submitted_tasks.contains(task):
\*     raise TaskException("Task has not been submitted")
\* if len(self._submitted_tasks) is 0:
\*     raise TaskException("No tasks yet submitted")
\* The two tests are one step: with a task given, the registry that contains
\* it is not empty (it only grows); with no task, contains is not called.
GetValidate(c, task) ==
    /\ c \in threads
    /\ get[c].pc \in {"idle", "done"}
    /\ get[c].calls < MaxCalls
    /\ \A c0 \in Callers : Before(c0, c) => get[c0].calls > get[c].calls
    /\ get' = [get EXCEPT ![c] =
                 IF task # None /\ ~Contains(submitted, task)
                   THEN [pc |-> "done", task |-> task, wait |-> FALSE,
                         calls |-> @.calls + 1,
                         res |-> Result("TaskException", None,
                                        "Task has not been submitted", None)]
                 ELSE IF Len(submitted) = 0
                   THEN [pc |-> "done", task |-> task, wait |-> FALSE,
                         calls |-> @.calls + 1,
                         res |-> Result("TaskException", None,
                                        "No tasks yet submitted", None)]
                   ELSE [pc |-> "check", task |-> task, wait |-> FALSE,
                         calls |-> @.calls + 1, res |-> IdleGet.res]]
    /\ UNCHANGED <<cfg, threads, cur_task_num, tasks, submitted, queue, sem,
                   finished, sched, busy, exec, inFile, outFile, sub>>

\* mutation: is_task_finished waits whatever its wait argument
GetIsFinished_AlwaysWaits(c, wait) ==
    /\ get[c].pc = "check"
    /\ get' = [get EXCEPT ![c] =
                 IF get[c].task = None
                   THEN [@ EXCEPT !.pc = "done", !.wait = wait,
                                  !.res = Result("AttributeError", None,
                                                 "is_task_finished", None)]
                 ELSE IF TaskOf(get[c].task).fired
                   THEN [@ EXCEPT !.pc = "error", !.wait = wait]
                   ELSE [@ EXCEPT !.pc = "wait", !.wait = wait]]
    /\ UNCHANGED <<cfg, threads, cur_task_num, tasks, submitted, queue, sem,
                   finished, sched, busy, exec, inFile, outFile, sub>>

\* if not task.is_task_finished(wait): return None, None
\* With task None the attribute lookup raises AttributeError.
\* is_task_finished: if not self._finish_event.isSet():
\*                       if not wait: return False
\*                       self._finish_event.wait()
\* The wait argument is read here and nowhere else, so the value the call
\* was made with is drawn here.
GetIsFinished(c, wait) ==
    /\ get[c].pc = "check"
    /\ get' = [get EXCEPT ![c] =
                 IF get[c].task = None
                   THEN [@ EXCEPT !.pc = "done", !.wait = wait,
                                  !.res = Result("AttributeError", None,
                                                 "is_task_finished", None)]
                 ELSE IF TaskOf(get[c].task).fired
                   THEN [@ EXCEPT !.pc = "error", !.wait = wait]
                 ELSE IF ~wait
                   THEN [@ EXCEPT !.pc = "done", !.wait = wait,
                                  !.res = NotYet]
                   ELSE [@ EXCEPT !.pc = "wait", !.wait = wait]]
    /\ UNCHANGED <<cfg, threads, cur_task_num, tasks, submitted, queue, sem,
                   finished, sched, busy, exec, inFile, outFile, sub>>

\* is_task_finished: self._finish_event.wait() returns; return True
GetWait(c) ==
    /\ get[c].pc = "wait"
    /\ TaskOf(get[c].task).fired
    /\ get' = [get EXCEPT ![c].pc = "error"]
    /\ UNCHANGED <<cfg, threads, cur_task_num, tasks, submitted, queue, sem,
                   finished, sched, busy, exec, inFile, outFile, sub>>

\* if task._error:   (an attribute never assigned raises AttributeError)
GetReadError(c) ==
    /\ get[c].pc = "error"
    /\ get' = [get EXCEPT ![c] =
                 IF TaskOf(get[c].task).error = "unset"
                   THEN [@ EXCEPT !.pc = "done",
                                  !.res = Result("AttributeError", None,
                                                 "_error", None)]
                 ELSE IF TaskOf(get[c].task).error # "None"
                   THEN [@ EXCEPT !.pc = "exit_finished"]
                   ELSE [@ EXCEPT !.pc = "return"]]
    /\ UNCHANGED <<cfg, threads, cur_task_num, tasks, submitted, queue, sem,
                   finished, sched, busy, exec, inFile, outFile, sub>>

\* self._scheduler._exit(): self._finished = True
GetExitSetFinished(c) ==
    /\ get[c].pc = "exit_finished"
    /\ ExitSetFinished
    /\ get' = [get EXCEPT ![c].pc = "exit_append"]
    /\ UNCHANGED <<cfg, threads, cur_task_num, tasks, submitted, queue, sem,
                   sched, busy, exec, inFile, outFile, sub>>

\* self._scheduler._exit(): self._task_list.append(None);
\* raise task._error
GetExitAppendRaise(c) ==
    /\ get[c].pc = "exit_append"
    /\ ExitAppendNone
    /\ get' = [get EXCEPT ![c].pc = "done",
                          ![c].res = Result("raised", get[c].task,
                                            TaskOf(get[c].task).error, None)]
    /\ UNCHANGED <<cfg, threads, cur_task_num, tasks, submitted, finished,
                   sched, busy, exec, inFile, outFile, sub>>

\* return task, task._output_data
GetReturn(c) ==
    /\ get[c].pc = "return"
    /\ get' = [get EXCEPT ![c].pc = "done",
                          ![c].res = Result("ok", get[c].task, "None",
                                            TaskOf(get[c].task).output)]
    /\ UNCHANGED <<cfg, threads, cur_task_num, tasks, submitted, queue, sem,
                   finished, sched, busy, exec, inFile, outFile, sub>>

GetStep(c) ==
    \/ \E wait \in BOOLEAN : GetIsFinished(c, wait)
    \/ GetWait(c)
    \/ GetReadError(c)
    \/ GetExitSetFinished(c)
    \/ GetExitAppendRaise(c)
    \/ GetReturn(c)

\* ------------------------------------------------------------------------
\* The master's state machine
\* ------------------------------------------------------------------------
Next ==
    \/ \E s \in Submitters :
         /\ \/ \E nm \in ExplicitNames \cup {NoName} : SubmitName(s, nm)
            \/ SubmitStep(s)
         /\ UNCHANGED notMaster
    \/ SchedStep /\ UNCHANGED notMaster
    \/ \E t \in TaskIds : ExecStep(t) /\ UNCHANGED notMaster
    \/ \E c \in Callers :
         /\ \/ \E task \in Handles : GetValidate(c, task)
            \/ GetStep(c)
         /\ UNCHANGED notMaster

Spec == Init /\ [][Next]_vars

\* every thread that has a statement to execute eventually executes it;
\* calls by the master's user (submit_task, get_result) need not be made
Fairness ==
    /\ WF_vars(SchedStep /\ UNCHANGED notMaster)
    /\ \A t \in 1..MaxTasks :
         WF_vars(t \in TaskIds /\ ExecStep(t) /\ UNCHANGED notMaster)
    /\ \A s \in Submitters : WF_vars(SubmitStep(s) /\ UNCHANGED notMaster)
    /\ \A c \in Callers : WF_vars(GetStep(c) /\ UNCHANGED notMaster)

\* the master over a backend with a single concurrency slot
FairInit == Init /\ cfg.slots = 1

FairSpec == FairInit /\ [][Next]_vars /\ Fairness

\* ========================================================================
\* Teardown of the master (TeardownSpec)
\* ========================================================================
\* what self._interface._cleanup() can do: return, raise AttributeError (the
\* backend has no _cleanup), or fail with any other exception, such as the
\* InterfaceException of pymw.py
CleanupOutcomes == {"ok", "AttributeError", "InterfaceException"}

\* _cleanup is called: registered with atexit by __init__, it runs when the
\* main thread ends, whatever the other threads are doing, and it can be
\* called directly as well
CleanupCall ==
    /\ td.pc \in {"idle", "done"}
    /\ td.runs < MaxTeardowns
    /\ td' = [pc |-> "iface", pos |-> 0, task |-> None,
              runs |-> td.runs + 1, res |-> "none"]
    /\ UNCHANGED mVars

\* try: self._interface._cleanup()
\* except AttributeError: pass
\* Any other exception leaves _cleanup; otherwise the for statement makes
\* its iterator, _SyncListIter(self._submitted_tasks), with _pos = 0.
CleanupInterface(outcome) ==
    /\ td.pc = "iface"
    /\ td' = IF outcome \in {"ok", "AttributeError"}
               THEN [td EXCEPT !.pc = "iter", !.pos = 0]
               ELSE [td EXCEPT !.pc = "done", !.res = "raised"]
    /\ UNCHANGED mVars

\* for task in self._submitted_tasks: _SyncListIter.next():
\* if self._pos >= len(self._list_obj): raise StopIteration
\* next_obj = self._list_obj._list[self._pos]; self._pos = self._pos + 1
CleanupIterNext ==
    /\ td.pc = "iter"
    /\ td' = IF td.pos >= Len(submitted)
               THEN [td EXCEPT !.pc = "exit_finished", !.task = None]
               ELSE [td EXCEPT !.pc = "rm_in", !.pos = td.pos + 1,
                               !.task = submitted[td.pos + 1]]
    /\ UNCHANGED mVars

\* task.cleanup(): try: os.remove(self._input_arg)
\* An OSError (no such artifact) goes to "except OSError: pass" and ends
\* task.cleanup, os.remove(self._output_arg) not being reached.
CleanupRemoveInput ==
    /\ td.pc = "rm_in"
    /\ IF tasks[td.task].name \in inFile
         THEN /\ inFile' = inFile \ {tasks[td.task].name}
              /\ td' = [td EXCEPT !.pc = "rm_out"]
         ELSE /\ UNCHANGED inFile
              /\ td' = [td EXCEPT !.pc = "iter"]
    /\ UNCHANGED <<cfg, threads, cur_task_num, tasks, submitted, queue, sem,
                   finished, sched, busy, exec, outFile, sub, get>>

\* task.cleanup(): os.remove(self._output_arg), an OSError being passed over
CleanupRemoveOutput ==
    /\ td.pc = "rm_out"
    /\ outFile' = [outFile EXCEPT ![tasks[td.task].name] = None]
    /\ td' = [td EXCEPT !.pc = "iter"]
    /\ UNCHANGED <<cfg, threads, cur_task_num, tasks, submitted, queue, sem,
                   finished, sched, busy, exec, inFile, sub, get>>

\* self._scheduler._exit(): self._finished = True
CleanupExitSetFinished ==
    /\ td.pc = "exit_finished"
    /\ ExitSetFinished
    /\ td' = [td EXCEPT !.pc = "exit_append"]
    /\ UNCHANGED <<cfg, threads, cur_task_num, tasks, submitted, queue, sem,
                   sched, busy, exec, inFile, outFile, sub, get>>

\* self._scheduler._exit(): self._task_list.append(None); then
\* try: os.rmdir(self._task_dir_name) / except OSError: pass
\* and _cleanup returns (the directory itself is not modelled)
CleanupExitAppendReturn ==
    /\ td.pc = "exit_append"
    /\ ExitAppendNone
    /\ td' = [td EXCEPT !.pc = "done", !.res = "returned"]
    /\ UNCHANGED <<cfg, threads, cur_task_num, tasks, submitted, finished,
                   sched, busy, exec, inFile, outFile, sub, get>>

CleanupStep ==
    \/ CleanupCall
    \/ \E outcome \in CleanupOutcomes : CleanupInterface(outcome)
    \/ CleanupIterNext
    \/ CleanupRemoveInput
    \/ CleanupRemoveOutput
    \/ CleanupExitSetFinished
    \/ CleanupExitAppendReturn

\* a master used by two submitting threads, with state tracking on and over
\* a single-slot backend (_cleanup reads neither setting)
TeardownInit ==
    /\ SLIdle
    /\ TeardownIdle
    /\ CondorIdle
    /\ cfg = [use_state_records |-> TRUE, slots |-> 1]
    /\ threads = Submitters
    /\ cur_task_num = 0
    /\ tasks = << >>
    /\ submitted = << >>
    /\ queue = << >>
    /\ sem = 0
    /\ finished = FALSE
    /\ sched = [pc |-> "loop", next_task |-> None]
    /\ busy = 0
    /\ exec = [t \in 1..MaxTasks |-> [pc |-> "none", task_err |-> "None"]]
    /\ inFile = {}
    /\ outFile = [n \in AllNames |-> None]
    /\ sub = [s \in Submitters |-> IdleSub]
    /\ get = [c \in Callers |-> IdleGet]

TeardownNext ==
    \/ \E s \in Submitters :
         /\ \/ \E nm \in ExplicitNames \cup {NoName} : SubmitName(s, nm)
            \/ SubmitStep(s)
         /\ UNCHANGED notMaster
    \/ SchedStep /\ UNCHANGED notMaster
    \/ \E t \in TaskIds : ExecStep(t) /\ UNCHANGED notMaster
    \/ CleanupStep /\ UNCHANGED <<slVars, cVars>>

TeardownSpec == TeardownInit /\ [][TeardownNext]_vars

\* ========================================================================
\* The Condor backend (CondorSpec): interfaces/condor.py
\* ========================================================================
\* the master's state other than the task objects
mRest == <<cfg, threads, cur_task_num, submitted, queue, sem, finished,
           sched, busy, exec, inFile, outFile, sub, get>>

\* what running condor_submit can do: succeed with an empty error stream,
\* write to its error stream, or not be found (Popen raises OSError)
SubmitOutcomes == {"ok", "stderr", "OSError"}

\* PyMW_Task.task_finished(task_err) as one step, artifact being the content
\* of the output artifact, None if there is none: _error = task_err;
\* _output_data loaded if the artifact can be opened; finish_time set;
\* _finish_event set.  No thread of CondorSpec reads a task's fields, so
\* the four statements are taken together.
TaskFinished(task, task_err, artifact) ==
    [task EXCEPT !.error = task_err,
                 !.output = IF artifact # None THEN artifact ELSE @,
                 !.finish_time = 1,
                 !.fired = TRUE]

\* the content of the output artifact of task t, None if the job wrote none
OutputOf(t) == IF jobs[t].out THEN t ELSE None

\* list.remove(item): the list without the first occurrence of item
RemoveFirst(list, item) ==
    LET k == CHOOSE i \in 1..Len(list) :
                 /\ list[i] = item
                 /\ \A j \in 1..(i - 1) : list[j] # item
    IN  SubSeq(list, 1, k - 1) \o SubSeq(list, k + 1, Len(list))

\* ------------------------------------------------------------------------
\* CondorInterface.execute_task, run by one thread per dispatched task
\* ------------------------------------------------------------------------
\* mutation: after a submission with a non-empty error stream the callback
\* is made and execute_task goes on to register the task, whose job runs
CxSubmit_NoReturn(t, outcome) ==
    /\ cx[t].pc = "none"
    /\ \A u \in 1..(t - 1) : cx[u].pc # "none"
    /\ IF outcome = "ok"
         THEN /\ jobs' = [jobs EXCEPT ![t].log = "submitted"]
              /\ cx' = [cx EXCEPT ![t] = [pc |-> "register",
                                          outcome |-> outcome]]
              /\ UNCHANGED <<tasks, cb>>
         ELSE /\ tasks' = [tasks EXCEPT
                             ![t] = TaskFinished(@, "Exception", OutputOf(t))]
              /\ cb' = [cb EXCEPT ![t] = @ + 1]
              /\ jobs' = [jobs EXCEPT ![t].log = "submitted"]
              /\ cx' = [cx EXCEPT ![t] = [pc |-> "register",
                                          outcome |-> outcome]]
    /\ UNCHANGED <<task_list, task_list_lock, result_checker_running,
                   poller>>

\* the scheduler's thread for task t runs execute_task(task, worker) up to
\* the submission (tasks are numbered in the order of their dispatch): the
\* old log and error artifacts are removed, the submit file is written and
\* condor_submit is run.  A successful submission leaves the job at the pool
\* with its log artifact written.  Otherwise
\*   if proc_stderr != "": task.task_finished(Exception(...)); return
\*   except OSError: task.task_finished(Exception("Could not find ..."))
CxSubmit(t, outcome) ==
    /\ cx[t].pc = "none"
    /\ \A u \in 1..(t - 1) : cx[u].pc # "none"
    /\ IF outcome = "ok"
         THEN /\ jobs' = [jobs EXCEPT ![t].log = "submitted"]
              /\ cx' = [cx EXCEPT ![t] = [pc |-> "register",
                                          outcome |-> outcome]]
              /\ UNCHANGED <<tasks, cb>>
         ELSE /\ tasks' = [tasks EXCEPT
                             ![t] = TaskFinished(@, "Exception", OutputOf(t))]
              /\ cb' = [cb EXCEPT ![t] = @ + 1]
              /\ cx' = [cx EXCEPT ![t] = [pc |-> "done",
                                          outcome |-> outcome]]
              /\ UNCHANGED jobs
    /\ UNCHANGED <<task_list, task_list_lock, result_checker_running,
                   poller>>

\* self._task_list_lock.acquire()
\* self._task_list.append([task, err_file_name, log_file_name, ...])
\* self._task_list_lock.release()
\* (one step: the list is read without the lock only for its length, at
\* line 75, and that read sees the list either before or after the append)
CxRegister(t) ==
    /\ cx[t].pc = "register"
    /\ task_list_lock = 0
    /\ task_list' = Append(task_list, t)
    /\ cx' = [cx EXCEPT ![t].pc = "check"]
    /\ UNCHANGED <<tasks, task_list_lock, result_checker_running, poller,
                   jobs, cb>>

\* if not self._result_checker_running:   (the read of the flag)
CxCheckRunning(t) ==
    /\ cx[t].pc = "check"
    /\ cx' = [cx EXCEPT ![t].pc = IF ~result_checker_running
                                    THEN "start" ELSE "done"]
    /\ UNCHANGED <<tasks, task_list, task_list_lock,
                   result_checker_running, poller, jobs, cb>>

\* self._result_checker_running = True
\* self._task_finish_thread = threading.Thread(target=
\*     self._get_finished_tasks); self._task_finish_thread.start()
\* (the poller started by the thread of task t is poller t)
CxStartPoller(t) ==
    /\ cx[t].pc = "start"
    /\ result_checker_running' = TRUE
    /\ poller' = [poller EXCEPT ![t] = [pc |-> "acquire", i |-> 0]]
    /\ cx' = [cx EXCEPT ![t].pc = "done"]
    /\ UNCHANGED <<tasks, task_list, task_list_lock, jobs, cb>>

\* the statements of execute_task after the submission
CxStep(t) ==
    \/ CxRegister(t)
    \/ CxCheckRunning(t)
    \/ CxStartPoller(t)

\* the pool ends the job of task t: "Job terminated" is written to the job's
\* log, and the output artifact has been transferred back if the job's
\* program wrote one (WhenToTransferOutput = ON_EXIT)
JobTerminates(t) ==
    /\ jobs[t].log = "submitted"
    /\ \E wrote \in BOOLEAN :
         jobs' = [jobs EXCEPT ![t] = [log |-> "terminated", out |-> wrote]]
    /\ UNCHANGED <<tasks, task_list, task_list_lock,
                   result_checker_running, poller, cx, cb>>

\* ------------------------------------------------------------------------
\* CondorInterface._get_finished_tasks, run by each poller thread
\* ------------------------------------------------------------------------
\* while True: self._task_list_lock.acquire(); the for statement starts at
\* the first item
PollAcquire(q) ==
    /\ poller[q].pc = "acquire"
    /\ task_list_lock = 0
    /\ task_list_lock' = q
    /\ poller' = [poller EXCEPT ![q] = [pc |-> "scan", i |-> 1]]
    /\ UNCHANGED <<tasks, task_list, result_checker_running, cx, jobs, cb>>

\* mutation: a task whose job has terminated is notified and left in the
\* list with its log
PollScan_KeepsTask(q) ==
    /\ poller[q].pc = "scan"
    /\ IF poller[q].i > Len(task_list)
         THEN /\ poller' = [poller EXCEPT ![q].pc = "release"]
              /\ UNCHANGED <<tasks, task_list, jobs, cb>>
         ELSE LET t == task_list[poller[q].i]
              IN  IF jobs[t].log = "terminated"
                    THEN /\ tasks' = [tasks EXCEPT
                               ![t] = TaskFinished(@, "None", OutputOf(t))]
                         /\ cb' = [cb EXCEPT ![t] = @ + 1]
                         /\ poller' = [poller EXCEPT ![q].i = @ + 1]
                         /\ UNCHANGED <<task_list, jobs>>
                    ELSE /\ poller' = [poller EXCEPT ![q].i = @ + 1]
                         /\ UNCHANGED <<tasks, task_list, jobs, cb>>
    /\ UNCHANGED <<task_list_lock, result_checker_running, cx>>

\* one round of "for task in self._task_list:", the list iterator going by
\* index: past the end the loop is left; else task is the item at the index
\* and the index advances.  open(task[2]) of a log that does not exist
\* raises IOError, which ends the thread with the lock held.  If the log
\* holds "Job terminated": the error, log and submit artifacts are removed,
\* task[0].task_finished(None) is called and self._task_list.remove(task)
\* takes the item out (the item after it moves to the index just visited).
PollScan(q) ==
    /\ poller[q].pc = "scan"
    /\ IF poller[q].i > Len(task_list)
         THEN /\ poller' = [poller EXCEPT ![q].pc = "release"]
              /\ UNCHANGED <<tasks, task_list, jobs, cb>>
         ELSE LET t == task_list[poller[q].i]
              IN  IF jobs[t].log = "none"
                    THEN /\ poller' = [poller EXCEPT ![q].pc = "dead"]
                         /\ UNCHANGED <<tasks, task_list, jobs, cb>>
                  ELSE IF jobs[t].log = "terminated"
                    THEN /\ jobs' = [jobs EXCEPT ![t].log = "none"]
                         /\ tasks' = [tasks EXCEPT
                               ![t] = TaskFinished(@, "None", OutputOf(t))]
                         /\ cb' = [cb EXCEPT ![t] = @ + 1]
                         /\ task_list' = RemoveFirst(task_list, t)
                         /\ poller' = [poller EXCEPT ![q].i = @ + 1]
                    ELSE /\ poller' = [poller EXCEPT ![q].i = @ + 1]
                         /\ UNCHANGED <<tasks, task_list, jobs, cb>>
    /\ UNCHANGED <<task_list_lock, result_checker_running, cx>>

\* self._task_list_lock.release()
PollRelease(q) ==
    /\ poller[q].pc = "release"
    /\ task_list_lock' = 0
    /\ poller' = [poller EXCEPT ![q].pc = "len"]
    /\ UNCHANGED <<tasks, task_list, result_checker_running, cx, jobs, cb>>

\* if len(self._task_list) == 0:   (read without the lock)
\* else time.sleep(0.2) and the next round of the while loop
PollCheckLen(q) ==
    /\ poller[q].pc = "len"
    /\ poller' = [poller EXCEPT ![q].pc = IF Len(task_list) = 0
                                            THEN "stop" ELSE "acquire"]
    /\ UNCHANGED <<tasks, task_list, task_list_lock,
                   result_checker_running, cx, jobs, cb>>

\* self._result_checker_running = False; return
PollStop(q) ==
    /\ poller[q].pc = "stop"
    /\ result_checker_running' = FALSE
    /\ poller' = [poller EXCEPT ![q].pc = "done"]
    /\ UNCHANGED <<tasks, task_list, task_list_lock, cx, jobs, cb>>

PollStep(q) ==
    \/ PollAcquire(q)
    \/ PollScan(q)
    \/ PollRelease(q)
    \/ PollCheckLen(q)
    \/ PollStop(q)

\* ------------------------------------------------------------------------
\* The backend's state machine
\* ------------------------------------------------------------------------
\* a new CondorInterface and NJobs task objects, with names of their own,
\* that the scheduler will hand to it; the task directory holds no output
\* artifact
CondorInit ==
    /\ SLIdle
    /\ TeardownIdle
    /\ CondorIdle
    /\ cfg = [use_state_records |-> FALSE, slots |-> 1]
    /\ threads = {}
    /\ cur_task_num = NJobs
    /\ tasks = [t \in 1..NJobs |-> NewTask(DerivedName(Exe, t - 1))]
    /\ submitted = [t \in 1..NJobs |-> t]
    /\ queue = << >>
    /\ sem = 0
    /\ finished = FALSE
    /\ sched = [pc |-> "loop", next_task |-> None]
    /\ busy = 0
    /\ exec = [t \in 1..MaxTasks |-> [pc |-> "none", task_err |-> "None"]]
    /\ inFile = {}
    /\ outFile = [n \in AllNames |-> None]
    /\ sub = [s \in Submitters |-> IdleSub]
    /\ get = [c \in Callers |-> IdleGet]

CondorNext ==
    \/ \E t \in 1..NJobs :
         /\ \/ \E outcome \in SubmitOutcomes : CxSubmit(t, outcome)
            \/ CxStep(t)
            \/ JobTerminates(t)
         /\ UNCHANGED <<slVars, tVars, mRest>>
    \/ \E q \in 1..NJobs : PollStep(q) /\ UNCHANGED <<slVars, tVars, mRest>>

CondorSpec == CondorInit /\ [][CondorNext]_vars

\* every started thread of the backend eventually executes its next
\* statement, and every submitted job eventually terminates at the pool;
\* the scheduler need not hand a task over
CondorFairness ==
    /\ \A t \in 1..NJobs :
         /\ WF_vars(CxStep(t) /\ UNCHANGED <<slVars, tVars, mRest>>)
         /\ WF_vars(JobTerminates(t) /\ UNCHANGED <<slVars, tVars, mRest>>)
    /\ \A q \in 1..NJobs :
         WF_vars(PollStep(q) /\ UNCHANGED <<slVars, tVars, mRest>>)

CondorFairSpec == CondorInit /\ [][CondorNext]_vars /\ CondorFairness

\* ------------------------------------------------------------------------
\* Claims about the master
\* ------------------------------------------------------------------------
\* the state get_result must leave alone when it only inspects
shared == <<cfg, cur_task_num, tasks, submitted, queue, sem, finished, sched,
            busy, exec, inFile, outFile, sub>>

\* the tasks of the submitted registry
Registry == {submitted[i] : i \in 1..Len(submitted)}

\* the caller has got an outcome of a task from get_result
Observed(c) == get[c].pc = "done" /\ get[c].res.kind \in {"ok", "raised"}

\* the backend could not reserve a worker, or the work of some task failed
Failed ==
    \/ sched.pc = "dead"
    \/ \E t \in TaskIds : exec[t].task_err = "Exception"

\* C2: a completion signal that has fired stays fired and the task's error
\* and output no longer change; every get_result call that got an outcome
\* of a task got the error and the output the task has (so any two calls on
\* one task got the same outcome), and never found _error unassigned.
C2_CompletionIsStable ==
    /\ [](\A c \in Callers :
           /\ Observed(c) =>
                /\ get[c].res.task = get[c].task
                /\ TaskOf(get[c].task).fired
                /\ get[c].res.kind = "ok" =>
                     /\ TaskOf(get[c].task).error = "None"
                     /\ get[c].res.out = TaskOf(get[c].task).output
                /\ get[c].res.kind = "raised" =>
                     /\ get[c].res.err = "Exception"
                     /\ get[c].res.err = TaskOf(get[c].task).error
           /\ get[c].res # Result("AttributeError", None, "_error", None))
    /\ [][\A t \in TaskIds :
            tasks[t].fired => /\ tasks'[t].fired
                              /\ tasks'[t].error = tasks[t].error
                              /\ tasks'[t].output = tasks[t].output]_vars

\* two callers have both got the output of the same finished task
C2_Witness ==
    /\ Observed("c1") /\ Observed("c2")
    /\ get["c1"].task = get["c2"].task
    /\ get["c1"].res.kind = "ok"
    /\ get["c1"].res.out # None

\* C3: when reserve_worker has failed for the task the scheduler popped,
\* the task's completion signal eventually fires with an error.
C3_ReserveFailureFinishesTask ==
    (sched.pc = "dead") ~>
        (/\ TaskOf(sched.next_task).fired
         /\ TaskOf(sched.next_task).error = "Exception")

\* every task of the registry has been dispatched and has finished, and no
\* call on the master is under way
Settled ==
    /\ \A i \in 1..Len(submitted) :
         /\ exec[submitted[i]].pc # "none"
         /\ tasks[submitted[i]].fired
    /\ \A s \in Submitters : sub[s].pc \in {"idle", "done"}
    /\ \A c \in Callers : get[c].pc \in {"idle", "done"}

\* C4: over a single-slot backend, when no reservation and no task fails,
\* again and again every task submitted so far has been dispatched and has
\* finished and every call has returned (so each submitted task eventually
\* finishes and no get_result waits forever), and a get_result call that
\* waited for a task has returned that task with the output loaded at its
\* completion.
C4_SingleSlotAllFinish ==
    /\ []<>(Failed \/ Settled)
    /\ [](\A c \in Callers :
           (/\ ~Failed
            /\ get[c].pc = "done"
            /\ get[c].wait
            /\ get[c].task # None) =>
               /\ get[c].res.kind = "ok"
               /\ get[c].res.task = get[c].task
               /\ get[c].res.out = tasks[get[c].task].output
               /\ get[c].res.out # None)

\* two threads have submitted, both tasks have finished over the single
\* slot without a failure, and a caller has got a result
C4_Witness ==
    /\ cfg.slots = 1
    /\ {"s1", "s2"} \subseteq threads
    /\ Len(submitted) = MaxTasks
    /\ \A t \in TaskIds : tasks[t].fired
    /\ ~Failed
    /\ get["c1"].pc = "done" /\ get["c1"].res.kind = "ok"

\* C5: no two tasks of the submitted registry have the same name.
C5_UniqueNames ==
    \A i, j \in 1..Len(submitted) :
        i # j => tasks[submitted[i]].name # tasks[submitted[j]].name

\* C6: with state tracking enabled, any two submit_task calls that have
\* returned for the same name have returned the same task object, and the
\* registry and the dispatch queue hold one task of that name.
C6_SameNameSameTask ==
    cfg.use_state_records =>
        /\ \A s1, s2 \in Submitters :
             (/\ sub[s1].pc = "done" /\ sub[s2].pc = "done"
              /\ sub[s1].name = sub[s2].name) => sub[s1].ret = sub[s2].ret
        /\ \A i, j \in 1..Len(submitted) :
             i # j => tasks[submitted[i]].name # tasks[submitted[j]].name

\* C7: a get_result call on a task that finished with an error goes on to
\* signal the scheduler and raises the error the task finished with; once
\* the scheduler is signalled (_finished set) the scheduler thread
\* eventually ends.
C7_ErrorStopsScheduler ==
    /\ [][\A c \in Callers :
            (/\ get[c].pc = "error" /\ get'[c].pc # "error"
             /\ TaskOf(get[c].task).error = "Exception") =>
                get'[c].pc = "exit_finished"]_vars
    /\ [](\A c \in Callers :
           /\ get[c].pc = "exit_append" => finished
           /\ (get[c].pc = "done" /\ get[c].res.kind = "raised") =>
                /\ finished
                /\ get[c].res.err = TaskOf(get[c].task).error
                /\ get[c].res.err = "Exception")
    /\ []<>(~finished \/ sched.pc \in {"done", "dead"})

\* a get_result call has raised a task's error and the scheduler loop has
\* left through its loop condition
C7_Witness ==
    /\ get["c1"].pc = "done"
    /\ get["c1"].res.kind = "raised"
    /\ sched.pc = "done"

\* C8: a get_result call raises TaskException, in its first step, exactly
\* when it is given a task that is not in the registry or the registry is
\* empty, and that step changes nothing but the caller's own call.
C8_ValidationError ==
    [][\A c \in Callers :
         get'[c].calls # get[c].calls =>
           LET t == get'[c].task
               invalid == \/ t # None /\ t \notin Registry
                          \/ Registry = {}
           IN  /\ invalid <=> (/\ get'[c].pc = "done"
                               /\ get'[c].res.kind = "TaskException")
               /\ invalid => UNCHANGED shared]_vars

\* a call given a task object of another origin has raised TaskException
\* while the registry held a task
C8_Witness ==
    /\ get["c1"].pc = "done"
    /\ get["c1"].task = Foreign
    /\ get["c1"].res.kind = "TaskException"
    /\ Len(submitted) > 0

C10_NextFinishedTask ==
    \A c \in Callers :
        (/\ get[c].pc = "done"
         /\ get[c].task = None
         /\ get[c].res.kind # "TaskException") =>
            /\ get[c].res.kind = "ok"
            /\ get[c].res.task \in TaskIds
            /\ tasks[get[c].res.task].fired


\* the stage of a task's life: 0 QUEUED (created, not handed to the backend),
\* 1 EXECUTING (handed to execute_task), 2 FINISHED (completion signal set)
Stage(t) ==
    IF tasks[t].fired THEN 2 ELSE IF exec[t].pc # "none" THEN 1 ELSE 0

\* C11: every task moves only forward through QUEUED, EXECUTING, FINISHED:
\* it is in the dispatch queue at most once and only while QUEUED and not
\* yet popped, it is handed to execute_task only by the scheduler that
\* popped it and only once, its stage never decreases, and its completion
\* signal is set only by the last statement of task_finished run by the
\* backend's thread for that task.
C11_ForwardOnly ==
    /\ [](\A t \in TaskIds :
           /\ Cardinality({i \in 1..Len(queue) : queue[i] = t}) <= 1
           /\ (\E i \in 1..Len(queue) : queue[i] = t) =>
                /\ Stage(t) = 0
                /\ ~(sched.pc = "reserve" /\ sched.next_task = t))
    /\ [][\A t \in TaskIds :
            /\ Stage(t) <= IF tasks'[t].fired THEN 2
                           ELSE IF exec'[t].pc # "none" THEN 1 ELSE 0
            /\ (exec'[t].pc = "run" /\ exec[t] # exec'[t]) =>
                 /\ exec[t].pc = "none"
                 /\ sched.pc = "reserve" /\ sched.next_task = t
                 /\ \A i \in 1..Len(queue) : queue[i] # t
            /\ (tasks'[t].fired /\ ~tasks[t].fired) =>
                 /\ exec[t].pc = "tf_event"
                 /\ exec'[t].pc = "done"]_vars

\* one task has finished while another one is still waiting in the queue
C11_Witness ==
    /\ Len(tasks) = 2
    /\ \E t, u \in TaskIds :
         /\ Stage(t) = 2
         /\ Stage(u) = 0
         /\ \E i \in 1..Len(queue) : queue[i] = u


\* PyMW_Task.get_total_time: the time from submission to completion when
\* _times["finish_time"] != 0, else None (the duration itself is not
\* modelled, only whether one is returned)
get_total_time(task) == IF task.finish_time # 0 THEN "duration" ELSE "None"

\* PyMW_Task.get_execution_time: the time from the start of execution to
\* completion when _times["finish_time"] != 0, else None
get_execution_time(task) ==
    IF task.finish_time # 0 THEN "duration" ELSE "None"

\* C13: in every reachable state a task's finish timestamp is non-zero
\* exactly when its completion signal has fired, and get_total_time and
\* get_execution_time return a duration only for a task whose completion
\* signal has fired.
C13_FinishTimeIffFired ==
    \A t \in TaskIds :
        /\ tasks[t].finish_time # 0 <=> tasks[t].fired
        /\ get_total_time(tasks[t]) = "duration" => tasks[t].fired
        /\ get_execution_time(tasks[t]) = "duration" => tasks[t].fired


\* C20: wait_pop removes and returns the item appended most recently among
\* those still in the list: the dispatch queue holds its items in the order
\* of their appends, in every step all items but the last stay in place, and
\* the scheduler's pop takes the last item as its next task, so a task
\* waiting in the queue is never taken before a task appended after it.
C20_LastInFirstOut ==
    [][/\ \A i \in 1..(Len(queue) - 1) :
            Len(queue') >= i /\ queue'[i] = queue[i]
       /\ (sched.pc = "pop" /\ sched'.pc # "pop" /\ queue # << >>) =>
            /\ sched'.next_task = queue[Len(queue)]
            /\ queue = Append(queue', queue[Len(queue)])
       /\ Len(queue') > Len(queue) =>
            /\ Len(queue') = Len(queue) + 1
            /\ \A i \in 1..Len(queue) : queue'[i] = queue[i]]_vars

\* both submitted tasks are enqueued, the scheduler has popped the task
\* created last and the task created first is still waiting in the queue
C20_Witness ==
    /\ \A s \in Submitters : sub[s].pc = "done"
    /\ sched.pc = "reserve"
    /\ sched.next_task = 2
    /\ queue = <<1>>


\* C14: a _cleanup call never ends by raising, and when a _cleanup call has
\* ended the scheduler has been signalled to terminate (_finished is set).
C14_TeardownRunsAllSteps ==
    /\ td.res # "raised"
    /\ td.pc = "done" => finished

\* the task has a name no other task has or is about to be given, so its
\* artifacts are its own
OwnName(t) ==
    /\ \A u \in TaskIds : u # t => tasks[u].name # tasks[t].name
    /\ \A s \in Submitters :
         sub[s].pc \in {"inc_load", "inc_store", "scan", "create"} =>
             sub[s].name # tasks[t].name

\* C15: when teardown's cleanup of a submitted task returns, neither the
\* input nor the output artifact of that task remains, whichever of the two
\* existed when it started.
C15_NoArtifactRemains ==
    [][(/\ td.pc \in {"rm_in", "rm_out"}
        /\ td'.pc = "iter"
        /\ OwnName(td.task)) =>
           /\ tasks[td.task].name \notin inFile'
           /\ outFile'[tasks[td.task].name] = None]_vars


\* ------------------------------------------------------------------------
\* Claims about the task's outcome and the Condor backend
\* ------------------------------------------------------------------------
\* C12: a task whose completion signal has fired has an output exactly when
\* task_finished was called on it without an error.
C12_OutputIffNoError ==
    \A t \in TaskIds :
        tasks[t].fired =>
            (tasks[t].output # None <=> tasks[t].error = "None")

\* the task is in the backend's list of tracked tasks
Tracked(t) == \E i \in 1..Len(task_list) : task_list[i] = t

\* the poller thread has been started and has not ended
Polling(q) == poller[q].pc \notin {"none", "done", "dead"}

\* C16: task_finished is called at most once on every task handed to
\* execute_task; a task is notified by the submission-failure path or by a
\* poller, never by both, and a notified task is no longer tracked.
C16_CallbackAtMostOnce ==
    \A t \in 1..NJobs :
        /\ cb[t] <= 1
        /\ cb[t] = 1 <=> tasks[t].fired
        /\ cb[t] = 1 => ~Tracked(t)
        /\ (cb[t] = 1 /\ cx[t].outcome = "ok") =>
               /\ tasks[t].error = "None"
               /\ jobs[t].log = "none"

\* two pollers have been started and each of two tasks has been notified by
\* a poller
C16_Witness ==
    /\ poller[1].pc # "none" /\ poller[2].pc # "none"
    /\ cx[1].outcome = "ok" /\ cx[2].outcome = "ok"
    /\ cb[1] = 1 /\ cb[2] = 1

\* C17: every tracked task is eventually notified (its job eventually
\* terminates and every started thread of the backend keeps running).
C17_TrackedTaskIsNotified ==
    \A t \in 1..NJobs : Tracked(t) ~> (cb[t] > 0)

\* C18: at most one poller thread is running at any time.
C18_SinglePoller ==
    Cardinality({q \in 1..NJobs : Polling(q)}) <= 1

\* C19: an execute_task call whose submission failed (condor_submit not
\* found, or output on its error stream) has called task_finished with an
\* error in that same step, leaving the tracked list, the lock, the flag
\* and the pollers as they were, and has returned: the task's completion
\* signal has fired with the error, the task is not tracked and the call
\* has started no poller.
C19_SubmissionFailure ==
    /\ [](\A t \in 1..NJobs :
           cx[t].outcome \in {"stderr", "OSError"} =>
               /\ cx[t].pc = "done"
               /\ tasks[t].fired
               /\ tasks[t].error = "Exception"
               /\ ~Tracked(t)
               /\ poller[t].pc = "none")
    /\ [][\A t \in 1..NJobs :
            (/\ cx[t].pc = "none"
             /\ cx'[t].outcome \in {"stderr", "OSError"}) =>
                /\ cb'[t] = cb[t] + 1
                /\ UNCHANGED <<task_list, task_list_lock,
                               result_checker_running, poller>>]_vars

\* one submission found no condor_submit, another got output on the error
\* stream: both tasks are finished with an error and no poller was started
C19_Witness ==
    /\ cx[1].outcome = "OSError" /\ cx[2].outcome = "stderr"
    /\ tasks[1].fired /\ tasks[2].fired
    /\ tasks[1].error = "Exception" /\ tasks[2].error = "Exception"
    /\ task_list = << >>
    /\ \A q \in 1..NJobs : poller[q].pc = "none"


\* ------------------------------------------------------------------------
\* Claims about the scheduler's exit and teardown
\* ------------------------------------------------------------------------
\* the step hands task t to the backend's execute_task
Dispatches(t) == exec[t].pc = "none" /\ exec'[t].pc # "none"

\* C21: once _exit has set _finished the flag stays set, and the scheduler,
\* which is at the top of its loop after every dispatch, never goes from
\* there back to wait_pop, so it dispatches at most the one task it was
\* already waiting for or holding; once the loop has been left no task is
\* dispatched any more, and a task that was not dispatched by then (still
\* in the queue, or submitted later) never has its completion signal set.
C21_NoDispatchAfterExit ==
    /\ [](sched.pc = "done" => finished)
    /\ [][/\ finished => finished'
          /\ (finished /\ sched.pc \in {"loop", "done"}) =>
                 sched'.pc \in {"loop", "done"}
          /\ \A t \in 1..MaxTasks :
               /\ Dispatches(t) =>
                      sched.pc = "reserve" /\ sched'.pc = "loop"
               /\ sched.pc = "done" =>
                      /\ ~Dispatches(t)
                      /\ (exec[t].pc = "none" /\ t \in 1..Len(tasks')) =>
                             ~tasks'[t].fired]_vars

\* get_result has raised a task's error and signalled the scheduler, the
\* loop has been left, and a task submitted by the other thread waits in
\* the queue, not dispatched
C21_Witness ==
    /\ sched.pc = "done"
    /\ get["c1"].pc = "done" /\ get["c1"].res.kind = "raised"
    /\ \A s \in Submitters : sub[s].pc = "done"
    /\ \E t \in TaskIds :
         /\ exec[t].pc = "none"
         /\ ~tasks[t].fired
         /\ \E i \in 1..Len(queue) : queue[i] = t


\* C22: whenever a task (with a name of its own) is handed to the backend's
\* execute_task, its input artifact exists: teardown has not removed it.
C22_NoDispatchAfterInputRemoved ==
    [][\A t \in TaskIds :
         (Dispatches(t) /\ OwnName(t)) => tasks[t].name \in inFile]_vars


SLInit ==
    /\ SLIdle
    /\ TeardownIdle
    /\ CondorIdle
    /\ cfg = [use_state_records |-> FALSE, slots |-> 1]
    /\ threads = {}
    /\ cur_task_num = 0
    /\ tasks = << >>
    /\ submitted = << >>
    /\ queue = << >>
    /\ sem = 0
    /\ finished = FALSE
    /\ sched = [pc |-> "loop", next_task |-> None]
    /\ busy = 0
    /\ exec = [t \in 1..MaxTasks |-> [pc |-> "none", task_err |-> "None"]]
    /\ inFile = {}
    /\ outFile = [n \in AllNames |-> None]
    /\ sub = [s \in Submitters |-> IdleSub]
    /\ get = [c \in Callers |-> IdleGet]

SLNext ==
    \/ \E p \in Producers :
         /\ \/ SL_AppendCall(p)
            \/ SL_AppendLock(p)
            \/ SL_AppendItem(p)
            \/ SL_AppendSemRelease(p)
            \/ SL_AppendUnlock(p)
         /\ UNCHANGED <<mVars, tVars, cVars>>
    \/ \E k \in Consumers :
         /\ \/ SL_PopCall(k)
            \/ SL_PopSemAcquire(k)
            \/ SL_PopLock(k)
            \/ SL_PopItem(k)
         /\ UNCHANGED <<mVars, tVars, cVars>>

SLSpec == SLInit /\ [][SLNext]_vars

\* ------------------------------------------------------------------------
\* C1
\* ------------------------------------------------------------------------
SLAllDone ==
    /\ slStarted.append = NItems
    /\ slStarted.wait_pop = NItems
    /\ \A th \in Producers \cup Consumers : slPc[th] = "idle"

SLItemsReturned == {slReturned[i] : i \in 1..Len(slReturned)}

\* C1: under every interleaving of N append calls and N wait_pop calls on
\* one _SyncList, wait_pop returns only appended items (never None from an
\* empty list), returns no item twice, and once all calls have returned the
\* N returned values are exactly the N appended items.  A wait_pop that
\* holds a semaphore permit always finds an item in the list.
C1_NoLossNoDuplication ==
    /\ \A i \in 1..Len(slReturned) :
         /\ slReturned[i] # None
         /\ slReturned[i] \in 1..slStarted.append
    /\ \A i, j \in 1..Len(slReturned) :
         i # j => slReturned[i] # slReturned[j]
    /\ \A k \in Consumers : slPc[k] \in {"p_lock", "p_pop"} => slList # << >>
    /\ SLAllDone => /\ SLItemsReturned = 1..NItems
                    /\ Len(slReturned) = NItems
                    /\ slList = << >>
    /\ (/\ slStarted.append = NItems
        /\ \A p \in Producers : slPc[p] = "idle"
        /\ \E k \in Consumers : slPc[k] = "p_sem") => slSem > 0

\* all N appends and all N wait_pops have returned, and the first value
\* returned is not the first item appended (the calls did interleave)
C1_Witness ==
    /\ SLAllDone
    /\ Len(slReturned) = NItems
    /\ slReturned[1] # 1

====
